---- MODULE Spec2Model ----
(***************************************************************************)
(* The AWS Batch driver of COSMOS (cosmos/job/drm/drm_awsbatch.py) as a    *)
(* state machine: the driver's job-definition cache, the tasks it marks,   *)
(* the threads of submit_jobs, and the remote services (Batch, S3) as the  *)
(* record of the requests they received.                                   *)
(***************************************************************************)
EXTENDS Integers, Sequences, FiniteSets, TLC

(***************************************************************************)
(* Bounds of the model.                                                    *)
(***************************************************************************)
NTasks == 2
NImages == 2
NCallers == 2

(***************************************************************************)
(* Program constants.                                                      *)
(***************************************************************************)
MaxJobNameLen == 128

None == "None"
Tasks == 1..NTasks
Images == 1..NImages
Callers == 1..NCallers

TERMINATION_SIGNALS == {"SIGINT", "SIGTERM", "SIGXCPU"}
RaisedSignals == {"SIGINT"}

(***************************************************************************)
(* Strings are sequences of one-character strings.  "a" stands for a       *)
(* letter and "0" for a digit.                                             *)
(***************************************************************************)
Alnum == {"a", "0"}
NameChars == Alnum \cup {"-", "_"}

Contains(s, ch) == \E i \in 1..Len(s) : s[i] = ch

RECURSIVE Replace(_, _, _)
Replace(s, ch, by) ==
    IF s = <<>> THEN <<>>
    ELSE IF Len(s) = 1 THEN (IF s[1] = ch THEN by ELSE s)
    ELSE Replace(SubSeq(s, 1, Len(s) \div 2), ch, by)
             \o Replace(SubSeq(s, Len(s) \div 2 + 1, Len(s)), ch, by)

Truncate(s, n) == SubSeq(s, 1, IF Len(s) < n THEN Len(s) ELSE n)

\* getpass.getuser()
User == <<"a">>

\* "".join([f"cosmos__{user}__", stage, "__", uid])[:128]
JobName(stage_name, uid) ==
    Truncate(
        <<"a", "a", "a", "a", "a", "a", "_", "_">> \o User \o <<"_", "_">>
            \o Replace(Replace(stage_name, "/", <<"_", "_">>), ":", <<>>)
            \o <<"_", "_">>
            \o Replace(Replace(uid, "/", <<"_", "_">>), ":", <<>>),
        MaxJobNameLen)

\* if " " in job_name or ":" in job_name: raise ValueError
JobNamePreCheckFails(job_name) == Contains(job_name, " ") \/ Contains(job_name, ":")

\* re.match("^[A-Za-z0-9][A-Za-z0-9-_]*$", job_name): "$" also matches before
\* one trailing newline.
ReMatchJobName(job_name) ==
    LET body == IF Len(job_name) > 0 /\ job_name[Len(job_name)] = "\n"
                THEN SubSeq(job_name, 1, Len(job_name) - 1)
                ELSE job_name
        matches(s) == /\ Len(s) > 0
                      /\ s[1] \in Alnum
                      /\ \A i \in 2..Len(s) : s[i] \in NameChars
    IN matches(job_name) \/ matches(body)

\* if not re.match(...) or len(job_name) > 128: raise ValueError
JobNameCheckFails(job_name) ==
    ~ReMatchJobName(job_name) \/ Len(job_name) > MaxJobNameLen

(***************************************************************************)
(* S3 URIs are strings: sequences of one-character strings.                *)
(***************************************************************************)
NoUri == <<>>

\* "s3://"
Scheme == <<"s", "3", ":", "/", "/">>

\* s.startswith(p)
StartsWith(s, p) == Len(s) >= Len(p) /\ SubSeq(s, 1, Len(p)) = p

\* s.endswith(ch)
EndsWith(s, ch) == Len(s) > 0 /\ s[Len(s)] = ch

\* The matches of "s3://(.+?)/(.+)" that start at p: the positions j of the
\* last character of group 1.  "." matches every character but a newline.
MatchesAt(uri, p) ==
    {j \in (p + Len(Scheme))..(Len(uri) - 2) :
        /\ SubSeq(uri, p, p + Len(Scheme) - 1) = Scheme
        /\ \A i \in (p + Len(Scheme))..j : uri[i] # "\n"
        /\ uri[j + 1] = "/"
        /\ uri[j + 2] # "\n"}

\* re.search("s3://(.+?)/(.+)", s3_uri) finds a match
IsBucketKey(uri) == \E p \in 1..Len(uri) : MatchesAt(uri, p) # {}

\* split_bucket_key(s3_uri): (bucket, key), the groups of the leftmost match,
\* group 1 as short as it can be and group 2 up to the end of the line
split_bucket_key(uri) ==
    LET p == CHOOSE p \in 1..Len(uri) :
                 /\ MatchesAt(uri, p) # {}
                 /\ \A q \in 1..(p - 1) : MatchesAt(uri, q) = {}
        j == CHOOSE j \in MatchesAt(uri, p) : \A k \in MatchesAt(uri, p) : j <= k
        e == CHOOSE e \in (j + 2)..Len(uri) :
                 /\ \A i \in (j + 2)..e : uri[i] # "\n"
                 /\ e < Len(uri) => uri[e + 1] = "\n"
    IN <<SubSeq(uri, p + Len(Scheme), j), SubSeq(uri, j + 2, e)>>

\* os.path.join(a, b)
PathJoin(a, b) ==
    IF StartsWith(b, <<"/">>) THEN b
    ELSE IF a = <<>> \/ EndsWith(a, "/") THEN a \o b
    ELSE a \o <<"/">> \o b

\* the checks of s3_prefix_for_command_script_temp_files: endswith("/"), and
\* not startswith("s3://")
PrefixCheckFails(prefix) ==
    \/ EndsWith(prefix, "/")
    \/ ~StartsWith(prefix, Scheme)

(***************************************************************************)
(* Tasks as the workflow engine hands them to the driver.                  *)
(***************************************************************************)
ValidTask(img) ==
    [image |-> img, queue |-> "q", core_req |-> "1", mem_req |-> "1024",
     stage_name |-> <<"a", "/", "a", ":">>,
     mount_points |-> "[]", volumes |-> "[]", shm_size |-> None,
     keep_command_script_uri |-> None,
     s3_prefix_for_command_script_temp_files |-> Scheme \o <<"b", "/", "p">>]

TaskShapes ==
    {ValidTask(i) : i \in Images}
    \cup {[ValidTask(1) EXCEPT !.queue = None],
          [ValidTask(1) EXCEPT !.core_req = None],
          [ValidTask(1) EXCEPT !.mem_req = None],
          [ValidTask(1) EXCEPT !.stage_name = <<"a", " ", "a">>],
          [ValidTask(1) EXCEPT !.stage_name = <<"a", ".", "a">>],
          [ValidTask(1) EXCEPT !.s3_prefix_for_command_script_temp_files =
                                   Scheme \o <<"b", "/", "p", "/">>]}

\* task.uid: distinct per task
Uid(t) == [i \in 1..t |-> "0"]

\* Identifiers the Batch service returns: the n-th job, the n-th job definition.
JobId(n) == "job-" \o ToString(n)
Arn(n) == "jobdef-" \o ToString(n)

NoTask == [status |-> "absent"]

NewTask(t, shape) ==
    [shape |-> shape, uid |-> Uid(t), status |-> "no_attempt",
     drm_jobID |-> None, s3_command_script_uri |-> NoUri,
     job_definition_arn |-> None,
     output_stdout |-> None, output_stderr |-> None]

NoneTriple == [jobId |-> None, s3_command_script_uri |-> NoUri, job_def_arn |-> None]

IdleThread == [pc |-> "none", job_def_arn |-> None,
               s3_command_script_uri |-> NoUri, rv |-> NoneTriple, exc |-> None]

IdleCall == [pc |-> "idle", batch |-> <<>>, todo |-> {}, cur |-> None,
             arn |-> None, exc |-> None]

VARIABLES
    tasks,                    \* Task objects: attributes and the fields the driver writes
    image_to_job_definition,  \* DRM_AWSBatch.image_to_job_definition
    image_keys,               \* the keys of that dict, in the order they were inserted
    shutting,                 \* the position of the call of shutdown
    termination_signal,       \* workflow.termination_signal
    call,                     \* each caller's position in submit_jobs
    thread,                   \* the thread running _submit_job for each task
    job_definitions,          \* Batch: templates registered, in order; arn = index
    register_calls,           \* Batch: register_job_definition requests per image
    s3_objects,               \* S3: objects present
    upload_calls,             \* S3: upload_file requests per task
    batch_jobs,               \* Batch: jobs accepted, in order; jobId = index
    submit_calls,             \* Batch: submit_job requests per task
    describe_calls,           \* Batch: describe_jobs requests
    log_calls,                \* CloudWatch Logs: get_log_events requests per task
    delete_calls,             \* S3: delete_object requests per task
    poll,                     \* the position of one pass of filter_is_done, or
                              \* the result of one call of drm_statuses
    kill,                     \* the thread running kill for each task
    terminate_calls,          \* Batch: terminate_job requests per task
    fetch                     \* the position of one call of get_logs_from_log_stream

vars == <<tasks, image_to_job_definition, image_keys, shutting, termination_signal, call, thread,
          job_definitions, register_calls, s3_objects, upload_calls,
          batch_jobs, submit_calls, describe_calls, log_calls, delete_calls, poll,
          kill, terminate_calls, fetch>>

killing == <<kill, terminate_calls>>

cache == <<image_to_job_definition, image_keys>>

remote == <<job_definitions, register_calls, s3_objects, upload_calls,
            batch_jobs, submit_calls, describe_calls, log_calls, delete_calls>>

\* No pass of filter_is_done has been started.
IdlePoll == [pc |-> "idle", tasks |-> <<>>, i |-> 0, job_id_to_job_dict |-> <<>>,
             exit_status |-> 0, status_reason |-> None, yielded |-> <<>>,
             exc |-> None, response |-> <<>>, statuses |-> {},
             log_stream_name |-> None, attempts |-> 0, workflow |-> FALSE,
             pages |-> 0]

\* shutdown has not been called.
IdleShutdown == [pc |-> "idle", i |-> 0, n |-> 0, arn |-> None, exc |-> None]

\* kill has not been called for the task.
IdleKill == [pc |-> "none", exc |-> None]

\* get_logs_from_log_stream has not been called.
IdleFetch == [pc |-> "idle"]

\* DRM_AWSBatch.__init__
Init ==
    /\ tasks = [t \in Tasks |-> NoTask]
    /\ image_to_job_definition = [i \in Images |-> None]
    /\ image_keys = <<>>
    /\ termination_signal = None
    /\ call = [c \in Callers |-> IdleCall]
    /\ thread = [t \in Tasks |-> IdleThread]
    /\ job_definitions = <<>>
    /\ register_calls = [i \in Images |-> 0]
    /\ s3_objects = {}
    /\ upload_calls = [t \in Tasks |-> 0]
    /\ batch_jobs = <<>>
    /\ submit_calls = [t \in Tasks |-> 0]
    /\ describe_calls = 0
    /\ log_calls = [t \in Tasks |-> 0]
    /\ delete_calls = [t \in Tasks |-> 0]
    /\ poll = IdlePoll
    /\ kill = [t \in Tasks |-> IdleKill]
    /\ terminate_calls = [t \in Tasks |-> 0]
    /\ fetch = IdleFetch
    /\ shutting = IdleShutdown

Created == {t \in Tasks : tasks[t] # NoTask}

BatchSet(c) == {call[c].batch[i] : i \in 1..Len(call[c].batch)}

Active(c) == call[c].pc \notin {"idle", "done", "raised"}

\* The set of tuples submit_jobs iterates over to register job definitions.
RegistrationTuples(ts, batch) ==
    {[image |-> ts[batch[i]].shape.image,
      shm_size |-> ts[batch[i]].shape.shm_size,
      mount_points |-> ts[batch[i]].shape.mount_points,
      volumes |-> ts[batch[i]].shape.volumes,
      uid |-> ts[batch[i]].uid] : i \in 1..Len(batch)}

(***************************************************************************)
(* submit_jobs(tasks): the call.  The engine passes the next n tasks it    *)
(* has created.                                                            *)
(***************************************************************************)
submit_jobs(c, shapes) ==
    LET first == Cardinality(Created)
        batch == [i \in 1..Len(shapes) |-> first + i]
        ts == [t \in Tasks |->
                 IF t > first /\ t <= first + Len(shapes)
                 THEN NewTask(t, shapes[t - first]) ELSE tasks[t]]
    IN /\ ~Active(c)
       /\ first + Len(shapes) <= NTasks
       /\ tasks' = ts
       /\ call' = [call EXCEPT ![c] =
                     [IdleCall EXCEPT !.pc = "register", !.batch = batch,
                                      !.todo = RegistrationTuples(ts, batch)]]
       /\ UNCHANGED <<poll, killing, fetch, cache, shutting, termination_signal, thread, remote>>

\* register_check without the cache lookup: every tuple is registered
register_check_ignoring_cache(c, tup) ==
    /\ call[c].pc = "register"
    /\ tup \in call[c].todo
    /\ call' = [call EXCEPT ![c].pc = "register_call", ![c].cur = tup]
    /\ UNCHANGED <<poll, killing, fetch, tasks, cache, shutting, termination_signal, thread, remote>>

\* for ... in set([...]):  if container_image not in self.image_to_job_definition
register_check(c, tup) ==
    /\ call[c].pc = "register"
    /\ tup \in call[c].todo
    /\ IF image_to_job_definition[tup.image] = None
       THEN call' = [call EXCEPT ![c].pc = "register_call", ![c].cur = tup]
       ELSE call' = [call EXCEPT ![c].todo = @ \ {tup}]
    /\ UNCHANGED <<poll, killing, fetch, tasks, cache, shutting, termination_signal, thread, remote>>

\* "cosmos_base_jobdef_" and "cosmos_base_job_definition"
JobDefPrefix ==
    <<"a", "a", "a", "a", "a", "a", "_", "a", "a", "a", "a", "_",
      "a", "a", "a", "a", "a", "a", "_">>
SharedJobDefName ==
    <<"a", "a", "a", "a", "a", "a", "_", "a", "a", "a", "a", "_",
      "a", "a", "a", "_", "a", "a", "a", "a", "a", "a", "a", "a", "a", "a">>

\* The length under which register_base_job_definition uses the name hint.
JobNameHintLimit == 128

\* jobDefinitionName: "cosmos_base_jobdef_{job_name}" if len(job_name) < 128,
\* else "cosmos_base_job_definition"
JobDefinitionName(job_name) ==
    IF Len(job_name) < JobNameHintLimit
    THEN JobDefPrefix \o job_name
    ELSE SharedJobDefName

(***************************************************************************)
(* A call of the Batch client raises (the client's own error for a         *)
(* request that failed) or returns a response: its HTTPStatusCode, its     *)
(* "failures" list if it has one, and whether it carries the identifier    *)
(* the call is made for: the "jobId" of submit_job, the                    *)
(* "jobDefinitionArn" of register_job_definition.  A response that carries *)
(* the identifier tells of a job, or of a job definition, the service has  *)
(* created.                                                                *)
(***************************************************************************)
AwsResponse(raised, code, has_failures, failures, has_jobId) ==
    [raised |-> raised, HTTPStatusCode |-> code, has_failures |-> has_failures,
     failures |-> failures, has_jobId |-> has_jobId]

OkResponse == AwsResponse(FALSE, 200, FALSE, <<>>, TRUE)
ClientError == AwsResponse(TRUE, 500, FALSE, <<>>, FALSE)

\* The responses a call can return.
AwsResponses ==
    {AwsResponse(FALSE, code, hf, fs, id) :
        code \in {200, 500}, hf \in BOOLEAN, fs \in {<<>>, <<"failure">>},
        id \in BOOLEAN}
    \ {AwsResponse(FALSE, code, FALSE, <<"failure">>, id) :
          code \in {200, 500}, id \in BOOLEAN}

\* _check_aws_response_for_error(r) raises
check_aws_response_for_error(r) ==
    \/ r.has_failures /\ Len(r.failures) > 0
    \/ r.HTTPStatusCode # 200

\* register_base_job_definition: the register_job_definition request, the
\* check of its response and resp["jobDefinitionArn"].  A ClientError of the
\* request under the shared name is turned into SystemExit(1).
register_base_job_definition(c, r) ==
    LET tup == call[c].cur
        raise(e) == [call EXCEPT ![c].pc = "raised", ![c].exc = e]
    IN
    /\ call[c].pc = "register_call"
    /\ register_calls' = [register_calls EXCEPT ![tup.image] = @ + 1]
    /\ job_definitions' =
         IF ~r.raised /\ r.has_jobId
         THEN Append(job_definitions,
                 [image |-> tup.image, mount_points |-> tup.mount_points,
                  volumes |-> tup.volumes, shm_size |-> tup.shm_size,
                  job_name |-> tup.uid,
                  jobDefinitionName |-> JobDefinitionName(tup.uid),
                  status |-> "ACTIVE"])
         ELSE job_definitions
    /\ call' =
         IF r.raised
         THEN raise(IF Len(tup.uid) < JobNameHintLimit
                    THEN "RemoteError" ELSE "SystemExit")
         ELSE IF check_aws_response_for_error(r) THEN raise("RemoteError")
         ELSE IF ~r.has_jobId THEN raise("KeyError")
         ELSE [call EXCEPT ![c].pc = "register_store",
                           ![c].arn = Arn(Len(job_definitions) + 1)]
    /\ UNCHANGED <<poll, killing, fetch, tasks, cache, shutting, termination_signal, thread,
                   s3_objects, upload_calls, batch_jobs, submit_calls,
                   describe_calls, log_calls, delete_calls>>

\* register_store that leaves the cache as it is
register_store_forgetful(c) ==
    /\ call[c].pc = "register_store"
    /\ call' = [call EXCEPT ![c].pc = "register", ![c].todo = @ \ {call[c].cur},
                            ![c].cur = None, ![c].arn = None]
    /\ UNCHANGED <<poll, killing, fetch, tasks, cache, shutting,
                   termination_signal, thread, remote>>

\* self.image_to_job_definition[container_image] = <returned arn>
register_store(c) ==
    /\ call[c].pc = "register_store"
    /\ image_to_job_definition' =
           [image_to_job_definition EXCEPT ![call[c].cur.image] = call[c].arn]
    /\ image_keys' = IF \E k \in 1..Len(image_keys) : image_keys[k] = call[c].cur.image
                     THEN image_keys ELSE Append(image_keys, call[c].cur.image)
    /\ call' = [call EXCEPT ![c].pc = "register", ![c].todo = @ \ {call[c].cur},
                            ![c].cur = None, ![c].arn = None]
    /\ UNCHANGED <<poll, killing, fetch, tasks, shutting, termination_signal, thread, remote>>

\* pool.map(self._submit_job, tasks) / map(self._submit_job, tasks)
submit_jobs_map(c) ==
    /\ call[c].pc = "register"
    /\ call[c].todo = {}
    /\ call' = [call EXCEPT ![c].pc = "pool"]
    /\ thread' = [t \in Tasks |->
                    IF t \in BatchSet(c) THEN [IdleThread EXCEPT !.pc = "queued"]
                    ELSE thread[t]]
    /\ UNCHANGED <<poll, killing, fetch, tasks, cache, shutting, termination_signal, remote>>

\* The object the script of task t is uploaded to: the bucket of the prefix,
\* and key/<32 random characters>.<job_name>.script (the random part is taken
\* to be unique to the upload)
ScriptObject(t, prefix) ==
    <<split_bucket_key(prefix)[1],
      PathJoin(split_bucket_key(prefix)[2],
               <<ToString(t), ".", "s", "c", "r", "i", "p", "t">>)>>

\* s3_command_script_uri = "s3://" + os.path.join(bucket, key)
ScriptUri(t, prefix) ==
    Scheme \o PathJoin(ScriptObject(t, prefix)[1], ScriptObject(t, prefix)[2])

(***************************************************************************)
(* _submit_job(task), in its own thread.  From the check of the            *)
(* termination signal to the point just before s3.upload_file.             *)
(***************************************************************************)
submit_job_begin(t) ==
    LET shape == tasks[t].shape
        job_name == JobName(shape.stage_name, tasks[t].uid)
        raise(e) == [thread EXCEPT ![t].pc = "raised", ![t].exc = e]
    IN /\ thread[t].pc = "queued"
       /\ thread' =
            IF termination_signal \in TERMINATION_SIGNALS
            THEN [thread EXCEPT ![t].pc = "returned", ![t].rv = NoneTriple]
            ELSE IF shape.queue = None THEN raise("ValueError")
            ELSE IF shape.core_req = None THEN raise("ValueError")
            ELSE IF shape.mem_req = None THEN raise("ValueError")
            ELSE IF JobNamePreCheckFails(job_name) THEN raise("ValueError")
            ELSE IF PrefixCheckFails(shape.s3_prefix_for_command_script_temp_files)
                 THEN raise("ValueError")
            ELSE IF ~IsBucketKey(shape.s3_prefix_for_command_script_temp_files)
                 THEN raise("AttributeError")
            ELSE [thread EXCEPT ![t].pc = "upload",
                     ![t].job_def_arn = image_to_job_definition[shape.image]]
       /\ UNCHANGED <<poll, killing, fetch, tasks, cache, shutting, termination_signal, call, remote>>

\* submit_script_as_aws_batch_job: s3.upload_file, then the job-name check
submit_script_upload(t, ok) ==
    LET obj == ScriptObject(t, tasks[t].shape.s3_prefix_for_command_script_temp_files)
        uri == ScriptUri(t, tasks[t].shape.s3_prefix_for_command_script_temp_files)
        job_name == JobName(tasks[t].shape.stage_name, tasks[t].uid)
    IN
    /\ thread[t].pc = "upload"
    /\ upload_calls' = [upload_calls EXCEPT ![t] = @ + 1]
    /\ IF ~ok
       THEN /\ s3_objects' = s3_objects
            /\ thread' = [thread EXCEPT ![t].pc = "raised", ![t].exc = "RemoteError"]
       ELSE /\ s3_objects' = s3_objects \cup {obj}
            /\ thread' =
                 IF JobNameCheckFails(job_name)
                 THEN [thread EXCEPT ![t].pc = "raised", ![t].exc = "ValueError",
                                     ![t].s3_command_script_uri = uri]
                 ELSE [thread EXCEPT ![t].pc = "submit",
                                     ![t].s3_command_script_uri = uri]
    /\ UNCHANGED <<poll, killing, fetch, tasks, cache, shutting, termination_signal, call,
                   job_definitions, register_calls, batch_jobs, submit_calls,
                   describe_calls, log_calls, delete_calls>>

\* submit_script_as_aws_batch_job: batch.submit_job and
\* jobId = submit_jobs_response["jobId"]; then _submit_job writes the stdout and
\* stderr files and returns (jobId, s3_command_script_uri, job_def_arn)
submit_script_submit(t, r) ==
    LET jobId == JobId(Len(batch_jobs) + 1) IN
    /\ thread[t].pc = "submit"
    /\ submit_calls' = [submit_calls EXCEPT ![t] = @ + 1]
    /\ IF r.raised \/ ~r.has_jobId
       THEN /\ batch_jobs' = batch_jobs
            /\ tasks' = tasks
            /\ thread' = [thread EXCEPT
                            ![t].pc = "raised",
                            ![t].exc = IF r.raised THEN "RemoteError" ELSE "KeyError"]
       ELSE /\ batch_jobs' = Append(batch_jobs,
                   [task |-> t, jobDefinition |-> thread[t].job_def_arn,
                    script |-> thread[t].s3_command_script_uri,
                    response |-> r])
            /\ tasks' = [tasks EXCEPT ![t].output_stdout = "",
                                      ![t].output_stderr = jobId]
            /\ thread' = [thread EXCEPT ![t].pc = "returned",
                            ![t].rv = [jobId |-> jobId,
                                       s3_command_script_uri |->
                                           thread[t].s3_command_script_uri,
                                       job_def_arn |-> thread[t].job_def_arn]]
    /\ UNCHANGED <<poll, killing, fetch, cache, shutting, termination_signal, call,
                   job_definitions, register_calls, s3_objects, upload_calls,
                   describe_calls, log_calls, delete_calls>>

\* pool_map with the results in another order than the tasks
pool_map_reversed(batch) ==
    [i \in 1..Len(batch) |-> thread[batch[Len(batch) + 1 - i]].rv]

\* The results of pool.map, in the order of the tasks.
pool_map(batch) == [i \in 1..Len(batch) |-> thread[batch[i]].rv]

\* mark without the test of jobId: every task is marked submitted
mark_without_test(task, rv) ==
    [task EXCEPT !.drm_jobID = rv.jobId, !.status = "submitted",
                 !.s3_command_script_uri = rv.s3_command_script_uri,
                 !.job_definition_arn = rv.job_def_arn]

\* for task, rv in zip(tasks, rv): the fields submit_jobs writes on a task
mark(task, rv) ==
    IF rv.jobId # None
    THEN [task EXCEPT !.drm_jobID = rv.jobId, !.status = "submitted",
                      !.s3_command_script_uri = rv.s3_command_script_uri,
                      !.job_definition_arn = rv.job_def_arn]
    ELSE [task EXCEPT !.status = "killed"]

\* list(pool.map(...)) takes the results in the order of the tasks.  The first
\* task whose thread raised has its exception re-raised: the tasks after it
\* that no thread has started are cancelled and never run, the pool is shut
\* down when those under way have finished, and no task is marked.  With every
\* result, the loop that marks the tasks.
submit_jobs_finish(c) ==
    LET batch == call[c].batch
        rvs == pool_map(batch)
        pos(t) == CHOOSE i \in 1..Len(batch) : batch[i] = t
        first(i) == /\ thread[batch[i]].pc = "raised"
                    /\ \A j \in 1..(i - 1) : thread[batch[j]].pc = "returned"
    IN /\ call[c].pc = "pool"
       /\ IF \E i \in 1..Len(batch) : first(i)
          THEN LET i == CHOOSE k \in 1..Len(batch) : first(k) IN
               /\ \A j \in (i + 1)..Len(batch) :
                     thread[batch[j]].pc \in {"returned", "raised", "queued"}
               /\ call' = [call EXCEPT ![c].pc = "raised",
                                       ![c].exc = thread[batch[i]].exc]
               /\ thread' = [t \in Tasks |->
                               IF t \in BatchSet(c) /\ thread[t].pc = "queued"
                               THEN [thread[t] EXCEPT !.pc = "cancelled"]
                               ELSE thread[t]]
               /\ tasks' = tasks
          ELSE /\ \A t \in BatchSet(c) : thread[t].pc = "returned"
               /\ call' = [call EXCEPT ![c].pc = "done"]
               /\ thread' = thread
               /\ tasks' = [t \in Tasks |->
                              IF t \in BatchSet(c) THEN mark(tasks[t], rvs[pos(t)])
                              ELSE tasks[t]]
       /\ UNCHANGED <<poll, killing, fetch, cache, shutting, termination_signal, remote>>

(***************************************************************************)
(* shutdown(): for image, job_definition_arn in                            *)
(* self.image_to_job_definition.items(), one deregister_job_definition     *)
(* request for each item.  The cache is left as it is.                     *)
(***************************************************************************)
ShuttingDown == shutting.pc \in {"next", "deregister"}

\* The call: the iterator over the items of the dict is created.  One call of
\* shutdown is under way at a time.
shutdown ==
    /\ ~ShuttingDown
    /\ shutting' = [IdleShutdown EXCEPT !.pc = "next", !.n = Len(image_keys)]
    /\ UNCHANGED <<poll, killing, fetch, tasks, cache, termination_signal, call, thread,
                   remote>>

\* The next item of the iterator, in the order of insertion: a dict that has
\* another size than when the iterator was created makes it raise
\* RuntimeError.
shutdown_next ==
    /\ shutting.pc = "next"
    /\ shutting' =
         IF Len(image_keys) # shutting.n
         THEN [IdleShutdown EXCEPT !.pc = "raised", !.exc = "RuntimeError"]
         ELSE IF shutting.i >= shutting.n
         THEN [IdleShutdown EXCEPT !.pc = "done"]
         ELSE [shutting EXCEPT
                 !.pc = "deregister", !.i = @ + 1,
                 !.arn = image_to_job_definition[image_keys[shutting.i + 1]]]
    /\ UNCHANGED <<poll, killing, fetch, tasks, cache, termination_signal, call, thread,
                   remote>>

\* self.batch_client.deregister_job_definition(jobDefinition=job_definition_arn):
\* the request raises, or the job definition is deregistered
deregister_job_definition(ok) ==
    /\ shutting.pc = "deregister"
    /\ job_definitions' =
         [k \in 1..Len(job_definitions) |->
            IF ok /\ Arn(k) = shutting.arn
            THEN [job_definitions[k] EXCEPT !.status = "INACTIVE"]
            ELSE job_definitions[k]]
    /\ shutting' = IF ok THEN [shutting EXCEPT !.pc = "next"]
                   ELSE [IdleShutdown EXCEPT !.pc = "raised", !.exc = "RemoteError"]
    /\ UNCHANGED <<poll, killing, fetch, tasks, cache, termination_signal, call, thread,
                   register_calls, s3_objects, upload_calls, batch_jobs,
                   submit_calls, describe_calls, log_calls, delete_calls>>

ShutdownStep ==
    \/ shutdown_next
    \/ \E ok \in BOOLEAN : deregister_job_definition(ok)

\* The owner of the workflow raises a termination signal.
raise_signal(sig) ==
    /\ termination_signal = None
    /\ termination_signal' = sig
    /\ UNCHANGED <<poll, killing, fetch, tasks, cache, shutting, call, thread, remote>>

\* The batches the engine can still pass: sequences of new tasks.
BatchInputs == UNION {[1..n -> TaskShapes] : n \in 1..(NTasks - Cardinality(Created))}

DriverStep(c) ==
    \/ \E tup \in call[c].todo : register_check(c, tup)
    \/ \E r \in {OkResponse, ClientError} : register_base_job_definition(c, r)
    \/ register_store(c)
    \/ submit_jobs_map(c)
    \/ submit_jobs_finish(c)

ThreadStep(t) ==
    \/ submit_job_begin(t)
    \/ \E ok \in BOOLEAN : submit_script_upload(t, ok)
    \/ \E r \in {OkResponse, ClientError} : submit_script_submit(t, r)

\* submit_jobs is called by one thread, one call after the other.
Next ==
    \/ /\ ~Active(1)
       /\ \E shapes \in BatchInputs : submit_jobs(1, shapes)
    \/ DriverStep(1)
    \/ \E t \in Tasks : ThreadStep(t)
    \/ \E sig \in RaisedSignals : raise_signal(sig)

Spec == Init /\ [][Next]_vars

\* submit_jobs and shutdown are called by several threads, at any time: one
\* call after the other, or while other calls are under way.
NextConcurrent ==
    \/ \E c \in Callers :
           /\ ~Active(c)
           /\ \E shapes \in BatchInputs : submit_jobs(c, shapes)
    \/ \E c \in Callers : DriverStep(c)
    \/ \E t \in Tasks : ThreadStep(t)
    \/ \E sig \in RaisedSignals : raise_signal(sig)
    \/ shutdown
    \/ ShutdownStep

SpecConcurrent == Init /\ [][NextConcurrent]_vars

\* The longest task uid.
MaxUidLen == 130

\* The driver in submit_jobs([task]), before the loop of registrations, for a
\* valid task with a uid of any length.
InitNames ==
    \E n \in 1..MaxUidLen :
        LET ts == [t \in Tasks |->
                     IF t = 1
                     THEN [NewTask(1, ValidTask(1)) EXCEPT !.uid = [i \in 1..n |-> "0"]]
                     ELSE NoTask]
        IN /\ tasks = ts
           /\ call = [c \in Callers |->
                        IF c = 1
                        THEN [IdleCall EXCEPT !.pc = "register", !.batch = <<1>>,
                                              !.todo = RegistrationTuples(ts, <<1>>)]
                        ELSE IdleCall]
           /\ image_to_job_definition = [i \in Images |-> None]
           /\ image_keys = <<>>
           /\ termination_signal = None
           /\ thread = [t \in Tasks |-> IdleThread]
           /\ job_definitions = <<>>
           /\ register_calls = [i \in Images |-> 0]
           /\ s3_objects = {}
           /\ upload_calls = [t \in Tasks |-> 0]
           /\ batch_jobs = <<>>
           /\ submit_calls = [t \in Tasks |-> 0]
           /\ describe_calls = 0
           /\ log_calls = [t \in Tasks |-> 0]
           /\ delete_calls = [t \in Tasks |-> 0]
           /\ poll = IdlePoll
           /\ kill = [t \in Tasks |-> IdleKill]
           /\ terminate_calls = [t \in Tasks |-> 0]
           /\ fetch = IdleFetch
           /\ shutting = IdleShutdown

NextNames ==
    \/ DriverStep(1)
    \/ \E t \in Tasks : ThreadStep(t)

SpecNames == InitNames /\ [][NextNames]_vars

\* The mount points, volumes and shared memory size a task can ask for.
Configs ==
    {[mount_points |-> "[]", volumes |-> "[]", shm_size |-> None],
     [mount_points |-> "[{'containerPath': '/data', 'sourceVolume': 'data'}]",
      volumes |-> "[{'name': 'data', 'host': {'sourcePath': '/data'}}]",
      shm_size |-> "64"]}

ConfigOf(r) ==
    [mount_points |-> r.mount_points, volumes |-> r.volumes, shm_size |-> r.shm_size]

\* Batches of valid tasks with any image and any configuration.
ConfigBatchInputs ==
    UNION {[1..n -> {[ValidTask(i) EXCEPT !.mount_points = cfg.mount_points,
                                          !.volumes = cfg.volumes,
                                          !.shm_size = cfg.shm_size] :
                        i \in Images, cfg \in Configs}] :
              n \in 1..(NTasks - Cardinality(Created))}

\* submit_jobs, one call after the other, of valid tasks whose configurations
\* differ.
NextConfigs ==
    \/ /\ ~Active(1)
       /\ \E shapes \in ConfigBatchInputs : submit_jobs(1, shapes)
    \/ DriverStep(1)
    \/ \E t \in Tasks : ThreadStep(t)

SpecConfigs == Init /\ [][NextConfigs]_vars

\* Batches of valid tasks.
ValidBatchInputs ==
    UNION {[1..n -> {ValidTask(i) : i \in Images}] :
              n \in 1..(NTasks - Cardinality(Created))}

\* submit_jobs of valid tasks, one call after the other, with every response
\* the Batch service can give to register_job_definition and to submit_job.
NextResponses ==
    \/ /\ ~Active(1)
       /\ \E shapes \in ValidBatchInputs : submit_jobs(1, shapes)
    \/ \E tup \in call[1].todo : register_check(1, tup)
    \/ \E r \in AwsResponses \cup {ClientError} : register_base_job_definition(1, r)
    \/ register_store(1)
    \/ submit_jobs_map(1)
    \/ submit_jobs_finish(1)
    \/ \E t \in Tasks : submit_job_begin(t)
    \/ \E t \in Tasks : \E ok \in BOOLEAN : submit_script_upload(t, ok)
    \/ \E t \in Tasks : \E r \in AwsResponses \cup {ClientError} :
           submit_script_submit(t, r)

SpecResponses == Init /\ [][NextResponses]_vars

(***************************************************************************)
(* filter_is_done: one pass over submitted tasks.                          *)
(***************************************************************************)
ChunkSize == 50

\* What describe_jobs can report of one job.  An attempt: its container's
\* exitCode, if any, and its statusReason.
Attempt(code) ==
    [has_exitCode |-> TRUE, exitCode |-> code,
     statusReason |-> IF code = 0 THEN None ELSE "Essential container in task exited"]

AttemptWithoutExitCode ==
    [has_exitCode |-> FALSE, exitCode |-> 0, statusReason |-> "Host EC2 terminated"]

AttemptLists ==
    {<<>>, <<Attempt(0)>>, <<Attempt(1)>>, <<AttemptWithoutExitCode>>,
     <<Attempt(1), Attempt(0)>>}

JobDict(status, has_attempts, attempts, stream, has_times) ==
    [status |-> status, has_attempts |-> has_attempts, attempts |-> attempts,
     logStreamName |-> stream, has_times |-> has_times,
     startedAt |-> 1000, stoppedAt |-> 3500]

\* A job id the response does not contain.
MissingJob == JobDict("MISSING", FALSE, <<>>, None, FALSE)

JobDicts ==
    {JobDict("RUNNING", FALSE, <<>>, "stream", FALSE),
     JobDict("RUNNABLE", FALSE, <<>>, None, FALSE),
     JobDict("SUCCEEDED", TRUE, <<Attempt(0)>>, None, FALSE)}
    \cup {JobDict(st, TRUE, a, "stream", TRUE) :
             st \in {"SUCCEEDED", "FAILED"}, a \in AttemptLists}
    \cup {JobDict(st, FALSE, <<>>, "stream", TRUE) : st \in {"SUCCEEDED", "FAILED"}}

\* The tasks a pass polls, as submit_jobs left them: submitted, keeping the
\* staged script or not, or killed before submission.
KeepOptions == {None, "True"}

PolledStates ==
    {[status |-> "submitted", keep |-> k] : k \in KeepOptions}
    \cup {[status |-> "killed", keep |-> None]}

\* The driver after submit_jobs calls that left the first n tasks as st says.
InitPoll ==
    \E n \in 0..NTasks : \E st \in [1..n -> PolledStates] :
        LET subm == {u \in 1..n : st[u].status = "submitted"}
            rank(t) == Cardinality({u \in subm : u <= t})
            ofRank(k) == CHOOSE t \in subm : rank(t) = k
            shape(t) == [ValidTask(1) EXCEPT !.keep_command_script_uri = st[t].keep]
            uri(t) == ScriptUri(t, ValidTask(1).s3_prefix_for_command_script_temp_files)
        IN /\ tasks = [t \in Tasks |->
                 IF t > n THEN NoTask
                 ELSE IF t \in subm
                 THEN [NewTask(t, shape(t)) EXCEPT
                          !.status = "submitted", !.drm_jobID = JobId(rank(t)),
                          !.s3_command_script_uri = uri(t),
                          !.job_definition_arn = Arn(1),
                          !.output_stdout = "", !.output_stderr = JobId(rank(t))]
                 ELSE [NewTask(t, shape(t)) EXCEPT !.status = "killed"]]
           /\ image_to_job_definition =
                 [i \in Images |-> IF i = 1 /\ n > 0 THEN Arn(1) ELSE None]
           /\ image_keys = IF n > 0 THEN <<1>> ELSE <<>>
           /\ termination_signal = IF subm = 1..n THEN None ELSE "SIGINT"
           /\ call = [c \in Callers |-> IdleCall]
           /\ thread = [t \in Tasks |-> IdleThread]
           /\ job_definitions =
                 IF n > 0
                 THEN <<[image |-> 1, mount_points |-> "[]", volumes |-> "[]",
                         shm_size |-> None, job_name |-> Uid(1),
                         jobDefinitionName |-> JobDefinitionName(Uid(1)),
                         status |-> "ACTIVE"]>>
                 ELSE <<>>
           /\ register_calls = [i \in Images |-> IF i = 1 /\ n > 0 THEN 1 ELSE 0]
           /\ s3_objects = {split_bucket_key(uri(t)) : t \in subm}
           /\ upload_calls = [t \in Tasks |-> IF t \in subm THEN 1 ELSE 0]
           /\ batch_jobs = [k \in 1..Cardinality(subm) |->
                 [task |-> ofRank(k), jobDefinition |-> Arn(1),
                  script |-> uri(ofRank(k)), response |-> OkResponse]]
           /\ submit_calls = [t \in Tasks |-> IF t \in subm THEN 1 ELSE 0]
           /\ describe_calls = 0
           /\ log_calls = [t \in Tasks |-> 0]
           /\ delete_calls = [t \in Tasks |-> 0]
           /\ poll = IdlePoll
           /\ kill = [t \in Tasks |-> IdleKill]
           /\ terminate_calls = [t \in Tasks |-> 0]
           /\ fetch = IdleFetch
           /\ shutting = IdleShutdown

submission == <<cache, shutting, termination_signal, call, thread,
                job_definitions, register_calls, upload_calls, batch_jobs,
                submit_calls>>

Range(seq) == {seq[i] : i \in 1..Len(seq)}

\* more_itertools.chunked(all_job_ids, 50)
Chunked(seq, n) ==
    [k \in 1..((Len(seq) + n - 1) \div n) |->
        SubSeq(seq, (k - 1) * n + 1, IF k * n < Len(seq) THEN k * n ELSE Len(seq))]

\* job_ids = [task.drm_jobID for task in tasks]
JobIds(ts) == [i \in 1..Len(ts) |-> tasks[ts[i]].drm_jobID]

\* What the Batch service can answer to describe_jobs(jobs=ids), job by job.
DescribeResponses(ids) == [Range(ids) -> JobDicts \cup {MissingJob}]

\* The engine calls filter_is_done with the tasks it has submitted.
filter_is_done ==
    /\ poll.pc = "idle"
    /\ poll' = [poll EXCEPT !.pc = "start",
                            !.tasks = [i \in 1..Cardinality(Created) |-> i]]
    /\ UNCHANGED <<tasks, submission, killing, fetch, s3_objects, describe_calls, log_calls,
                   delete_calls>>

\* JobStatusMismatch that tolerates missing ids whatever missing_ok is
JobStatusMismatch_tolerant(job_ids, resp, missing_ok) == FALSE

\* _get_aws_batch_job_infos_for_batch: if not missing_ok, the ids returned
\* differ from the ids asked for
JobStatusMismatch(job_ids, resp, missing_ok) ==
    /\ ~missing_ok
    /\ \E id \in Range(job_ids) : resp[id] = MissingJob

\* get_aws_batch_job_infos(job_ids): describe_jobs chunk by chunk, each chunk
\* checked against the ids asked for; job_id_to_job_dict of the jobs returned.
get_aws_batch_job_infos(resp, ok) ==
    LET ids == JobIds(poll.tasks)
        chunks == Chunked(ids, ChunkSize)
        bad(k) == JobStatusMismatch(chunks[k], resp, FALSE)
        raise(e) == [poll EXCEPT !.pc = "raised", !.exc = e]
    IN /\ poll.pc = "start"
       /\ IF Len(ids) = 0
          THEN /\ poll' = [poll EXCEPT !.pc = "loop", !.i = 1]
               /\ describe_calls' = describe_calls
          ELSE IF Cardinality(Range(ids)) # Len(ids)
          THEN /\ poll' = raise("AssertionError")
               /\ describe_calls' = describe_calls
          ELSE IF None \in Range(ids)
          THEN /\ poll' = raise("ParamValidationError")
               /\ describe_calls' = describe_calls + 1
          ELSE IF ~ok
          THEN /\ poll' = raise("RemoteError")
               /\ describe_calls' = describe_calls + 1
          ELSE IF \E k \in 1..Len(chunks) : bad(k)
          THEN /\ poll' = [raise("JobStatusMismatchError") EXCEPT !.response = resp]
               /\ describe_calls' = describe_calls
                     + (CHOOSE k \in 1..Len(chunks) :
                           bad(k) /\ \A j \in 1..(k - 1) : ~bad(j))
          ELSE /\ poll' = [poll EXCEPT !.pc = "loop", !.i = 1,
                                       !.job_id_to_job_dict = resp,
                                       !.response = resp]
               /\ describe_calls' = describe_calls + Len(chunks)
       /\ UNCHANGED <<tasks, submission, killing, fetch, s3_objects, log_calls, delete_calls>>

\* drm_statuses(tasks): get_aws_batch_job_infos(job_ids, missing_ok=True), and
\* the status of each job returned
drm_statuses(resp, ok) ==
    LET ts == [i \in 1..Cardinality(Created) |-> i]
        ids == JobIds(ts)
        chunks == Chunked(ids, ChunkSize)
        bad(k) == JobStatusMismatch(chunks[k], resp, TRUE)
        returned == {id \in Range(ids) : resp[id] # MissingJob}
        raise(e) == [poll EXCEPT !.pc = "raised", !.exc = e, !.tasks = ts]
    IN /\ poll.pc = "idle"
       /\ IF Len(ids) = 0
          THEN /\ poll' = [poll EXCEPT !.pc = "statuses", !.tasks = ts, !.statuses = {}]
               /\ describe_calls' = describe_calls
          ELSE IF Cardinality(Range(ids)) # Len(ids)
          THEN /\ poll' = raise("AssertionError")
               /\ describe_calls' = describe_calls
          ELSE IF None \in Range(ids)
          THEN /\ poll' = raise("ParamValidationError")
               /\ describe_calls' = describe_calls + 1
          ELSE IF ~ok
          THEN /\ poll' = raise("RemoteError")
               /\ describe_calls' = describe_calls + 1
          ELSE IF \E k \in 1..Len(chunks) : bad(k)
          THEN /\ poll' = [raise("JobStatusMismatchError") EXCEPT !.response = resp]
               /\ describe_calls' = describe_calls
                     + (CHOOSE k \in 1..Len(chunks) :
                           bad(k) /\ \A j \in 1..(k - 1) : ~bad(j))
          ELSE /\ poll' = [poll EXCEPT !.pc = "statuses", !.tasks = ts,
                               !.response = resp,
                               !.statuses = {<<id, resp[id].status>> : id \in returned}]
               /\ describe_calls' = describe_calls + Len(chunks)
       /\ UNCHANGED <<tasks, submission, killing, fetch, s3_objects, log_calls, delete_calls>>

\* mutant of IsTerminal: every status counts as terminal
IsTerminal_any(status) == status = status

\* job_dict["status"] in ["SUCCEEDED", "FAILED"]
IsTerminal(status) == status \in {"SUCCEEDED", "FAILED"}

\* attempt = job_dict["attempts"][-1]
LastAttempt(job_dict) == job_dict.attempts[Len(job_dict.attempts)]

\* exit_status: attempt["container"].get("exitCode", -2), or -1 without "attempts"
ExitStatus(job_dict) ==
    IF job_dict.has_attempts
    THEN (IF LastAttempt(job_dict).has_exitCode
          THEN LastAttempt(job_dict).exitCode ELSE -2)
    ELSE -1

\* status_reason: attempt.get("statusReason") with the container's reason
\* appended, or "no_attempt" without "attempts"
StatusReason(job_dict) ==
    IF job_dict.has_attempts
    THEN (IF LastAttempt(job_dict).statusReason # None
          THEN LastAttempt(job_dict).statusReason \o " -- container_reason: None"
          ELSE None)
    ELSE "no_attempt"

\* AssertExitStatus without the assertion
AssertExitStatus_off(job_dict, exit_status) == FALSE

\* if job_dict["status"] == "FAILED": assert exit_status != 0  (the assertion fails)
AssertExitStatus(job_dict, exit_status) ==
    job_dict.status = "FAILED" /\ exit_status = 0

\* _cleanup_task(..., get_log_attempts=3, ...)
GetLogAttempts == 3

\* The most pages a log stream has.
MaxPages == 2

\* The body of the loop up to the call of _cleanup_task: the exit status and
\* the status reason of a job in a terminal status.
filter_is_done_examine ==
    LET t == poll.tasks[poll.i]
        job_dict == poll.job_id_to_job_dict[tasks[t].drm_jobID]
        exit_status == ExitStatus(job_dict)
        status_reason == StatusReason(job_dict)
    IN /\ poll.pc = "loop"
       /\ poll.i <= Len(poll.tasks)
       /\ poll' =
            IF ~IsTerminal(job_dict.status)
            THEN [poll EXCEPT !.i = @ + 1]
            ELSE IF job_dict.has_attempts /\ job_dict.attempts = <<>>
            THEN [poll EXCEPT !.pc = "raised", !.exc = "ValueError"]
            ELSE IF AssertExitStatus(job_dict, exit_status)
            THEN [poll EXCEPT !.pc = "raised", !.exc = "AssertionError"]
            ELSE [poll EXCEPT !.pc = "cleanup", !.exit_status = exit_status,
                              !.status_reason = status_reason,
                              !.log_stream_name = job_dict.logStreamName,
                              !.attempts = GetLogAttempts, !.workflow = TRUE,
                              !.pages = 0]
       /\ UNCHANGED <<tasks, submission, killing, fetch, s3_objects, describe_calls, log_calls,
                      delete_calls>>

\* The text get_logs_from_log_stream returns.
LogText == "log messages"

\* The text _cleanup_task writes to the stdout file of a task.
StdoutText(logs, jobId) ==
    logs \o "\nWARNING: this might be truncated.  "
         \o "check log stream on the aws console for job: " \o jobId

\* "no log stream was available for job: %s\n"
NoLogStreamText(jobId) == "no log stream was available for job: " \o jobId \o "\n"

\* "log stream not found for log_stream_name: %s\n"
LogStreamNotFoundText == "log stream not found for log_stream_name: stream\n"

\* Exhausted that gives up one attempt early
Exhausted_early(attempts) == attempts <= 2

\* except ResourceNotFoundException: if attempts <= 1
Exhausted(attempts) == attempts <= 1

\* with open(task.output_stdout_path, "w") as fp: fp.write(logs + ...)
write_stdout(t, logs) ==
    [tasks EXCEPT ![t].output_stdout = StdoutText(logs, tasks[t].drm_jobID)]

\* _cleanup_task with no log stream name in the job's description:
\* get_logs_from_job_id describes the job once more, get_aws_batch_job_infos
\* ([job_id]), to find one.  The request raises, or the job is missing from the
\* response, or its description has a log stream name, or it has none and the
\* text that says so is written to the task's stdout file.
get_logs_from_job_id(resp, ok) ==
    LET t == poll.tasks[poll.i]
        job_id == tasks[t].drm_jobID
        raise(e) == [poll EXCEPT !.pc = "raised", !.exc = e]
    IN /\ poll.pc = "cleanup"
       /\ poll.log_stream_name = None
       /\ describe_calls' = describe_calls + 1
       /\ IF ~ok
          THEN poll' = raise("RemoteError") /\ tasks' = tasks
          ELSE IF JobStatusMismatch(<<job_id>>, resp, FALSE)
          THEN poll' = raise("JobStatusMismatchError") /\ tasks' = tasks
          ELSE IF resp[job_id] = MissingJob
          THEN poll' = raise("AssertionError") /\ tasks' = tasks
          ELSE IF resp[job_id].logStreamName = None
          THEN /\ poll' = [poll EXCEPT !.pc = "cleanup_delete"]
               /\ tasks' = write_stdout(t, NoLogStreamText(job_id))
          ELSE /\ poll' = [poll EXCEPT !.log_stream_name = resp[job_id].logStreamName]
               /\ tasks' = tasks
       /\ UNCHANGED <<submission, killing, fetch, s3_objects, log_calls, delete_calls>>

\* What the log service answers to one get_log_events request: the stream does
\* not exist, the response does not pass the check, a page with a new token,
\* or the token that was sent.
PageOutcomes == {"not_found", "error", "events", "end"}

\* _cleanup_task with a log stream name: get_logs_from_log_stream(attempts=3,
\* sleep_between_attempts=0, workflow=task.workflow), one get_log_events
\* request at a time, and the write of the task's stdout file when it returns.
\* The retry after a stream that was not found passes no workflow.
cleanup_task_logs(outcome) ==
    LET t == poll.tasks[poll.i]
        returns(logs) == /\ poll' = [poll EXCEPT !.pc = "cleanup_delete"]
                         /\ tasks' = write_stdout(t, logs)
    IN /\ poll.pc = "cleanup"
       /\ poll.log_stream_name # None
       /\ outcome = "events" => poll.pages < MaxPages
       /\ outcome = "end" => poll.pages > 0
       /\ log_calls' = [log_calls EXCEPT ![t] = @ + 1]
       /\ IF outcome = "not_found"
          THEN IF Exhausted(poll.attempts)
               THEN returns(LogStreamNotFoundText)
               ELSE /\ poll' = [poll EXCEPT !.attempts = @ - 1, !.workflow = FALSE,
                                            !.pages = 0]
                    /\ tasks' = tasks
          ELSE IF outcome = "error"
          THEN /\ poll' = [poll EXCEPT !.pc = "raised", !.exc = "RemoteError"]
               /\ tasks' = tasks
          ELSE IF outcome = "end"
          THEN returns(LogText)
          ELSE IF poll.workflow /\ termination_signal \notin TERMINATION_SIGNALS
          THEN returns(LogText)
          ELSE /\ poll' = [poll EXCEPT !.pages = @ + 1]
               /\ tasks' = tasks
       /\ UNCHANGED <<submission, killing, fetch, s3_objects, describe_calls, delete_calls>>

\* IsFalsy that holds of every value
IsFalsy_always(v) == TRUE

\* not v, for an option that is None, False or True
IsFalsy(v) == v \in {None, "False"}

\* _cleanup_task: s3_client.delete_object of the staged script unless the task
\* keeps it; the request raises, or the object is deleted
cleanup_task_delete(ok) ==
    LET t == poll.tasks[poll.i]
        keep == tasks[t].shape.keep_command_script_uri
    IN /\ poll.pc = "cleanup_delete"
       /\ IF ~IsFalsy(keep)
          THEN /\ ok
               /\ delete_calls' = delete_calls
               /\ s3_objects' = s3_objects
               /\ poll' = [poll EXCEPT !.pc = "yield"]
          ELSE /\ delete_calls' = [delete_calls EXCEPT ![t] = @ + 1]
               /\ s3_objects' =
                    IF ok
                    THEN s3_objects \ {split_bucket_key(tasks[t].s3_command_script_uri)}
                    ELSE s3_objects
               /\ poll' = IF ok THEN [poll EXCEPT !.pc = "yield"]
                          ELSE [poll EXCEPT !.pc = "raised", !.exc = "RemoteError"]
       /\ UNCHANGED <<tasks, submission, killing, fetch, describe_calls, log_calls>>

\* round(x / n) of Python 3: to the nearest integer, a tie to the even one
RoundHalfEven(x, n) ==
    LET q == x \div n
        r == x % n
    IN IF 2 * r < n THEN q
       ELSE IF 2 * r > n THEN q + 1
       ELSE IF q % 2 = 0 THEN q ELSE q + 1

\* wall_time, and the yield of (task, outcome)
filter_is_done_yield ==
    LET t == poll.tasks[poll.i]
        job_dict == poll.job_id_to_job_dict[tasks[t].drm_jobID]
        wall_time == IF job_dict.has_times
                     THEN RoundHalfEven(job_dict.stoppedAt - job_dict.startedAt, 1000)
                     ELSE 0
    IN /\ poll.pc = "yield"
       /\ poll' = [poll EXCEPT
                     !.pc = "loop", !.i = @ + 1,
                     !.yielded = Append(@,
                         [task |-> t, exit_status |-> poll.exit_status,
                          wall_time |-> wall_time,
                          status_reason |-> poll.status_reason])]
       /\ UNCHANGED <<tasks, submission, killing, fetch, s3_objects, describe_calls, log_calls,
                      delete_calls>>

\* The loop is over: the generator is exhausted.
filter_is_done_return ==
    /\ poll.pc = "loop"
    /\ poll.i > Len(poll.tasks)
    /\ poll' = [poll EXCEPT !.pc = "done"]
    /\ UNCHANGED <<tasks, submission, killing, fetch, s3_objects, describe_calls, log_calls,
                   delete_calls>>

\* One pass of filter_is_done, or one call of drm_statuses.
NextPoll ==
    \/ filter_is_done
    \/ /\ poll.pc = "idle"
       /\ \E ok \in BOOLEAN :
              \E resp \in DescribeResponses(JobIds([i \in 1..Cardinality(Created) |-> i])) :
                  drm_statuses(resp, ok)
    \/ /\ poll.pc = "start"
       /\ \E ok \in BOOLEAN : \E resp \in DescribeResponses(JobIds(poll.tasks)) :
              get_aws_batch_job_infos(resp, ok)
    \/ filter_is_done_examine
    \/ /\ poll.pc = "cleanup"
       /\ \E ok \in BOOLEAN :
              \E resp \in DescribeResponses(<<tasks[poll.tasks[poll.i]].drm_jobID>>) :
                  get_logs_from_job_id(resp, ok)
    \/ \E outcome \in PageOutcomes : cleanup_task_logs(outcome)
    \/ \E ok \in BOOLEAN : cleanup_task_delete(ok)
    \/ filter_is_done_yield
    \/ filter_is_done_return

SpecPoll == InitPoll /\ [][NextPoll]_vars

(***************************************************************************)
(* kill(task), in a thread of kill_tasks or called directly.               *)
(***************************************************************************)
\* kill calls _cleanup_task with get_log_attempts=0
KillLogAttempts == 0

\* FetchesLogs that holds whatever the number of attempts
FetchesLogs_always(get_log_attempts) == TRUE

\* _cleanup_task: if get_log_attempts > 0
FetchesLogs(get_log_attempts) == get_log_attempts > 0

\* kill(task) is called for a submitted task: the thread starts.
kill_call(t) ==
    /\ t \in Created
    /\ tasks[t].status = "submitted"
    /\ kill[t].pc = "none"
    /\ kill' = [kill EXCEPT ![t].pc = "terminate"]
    /\ UNCHANGED <<tasks, poll, fetch, submission, terminate_calls, s3_objects,
                   describe_calls, log_calls, delete_calls>>

\* _terminate_task: batch_client.terminate_job and the check of its response
terminate_task(t, ok) ==
    /\ kill[t].pc = "terminate"
    /\ terminate_calls' = [terminate_calls EXCEPT ![t] = @ + 1]
    /\ kill' = IF ok THEN [kill EXCEPT ![t].pc = "cleanup"]
               ELSE [kill EXCEPT ![t].pc = "raised", ![t].exc = "RemoteError"]
    /\ UNCHANGED <<tasks, poll, fetch, submission, s3_objects, describe_calls,
                   log_calls, delete_calls>>

\* _cleanup_task(task, get_log_attempts=0): no log stream name is passed, so
\* logs would be looked up through get_logs_from_job_id; then
\* s3_client.delete_object of the staged script unless the task keeps it: the
\* request raises, or the object is deleted.
kill_cleanup(t, ok) ==
    LET keep == tasks[t].shape.keep_command_script_uri
        logs == FetchesLogs(KillLogAttempts)
    IN /\ kill[t].pc = "cleanup"
       /\ describe_calls' = IF logs THEN describe_calls + 1 ELSE describe_calls
       /\ log_calls' = IF logs THEN [log_calls EXCEPT ![t] = @ + 1] ELSE log_calls
       /\ tasks' = IF logs THEN write_stdout(t, LogText) ELSE tasks
       /\ IF ~IsFalsy(keep)
          THEN /\ ok
               /\ delete_calls' = delete_calls
               /\ s3_objects' = s3_objects
               /\ kill' = [kill EXCEPT ![t].pc = "done"]
          ELSE /\ delete_calls' = [delete_calls EXCEPT ![t] = @ + 1]
               /\ s3_objects' =
                    IF ok
                    THEN s3_objects \ {split_bucket_key(tasks[t].s3_command_script_uri)}
                    ELSE s3_objects
               /\ kill' = IF ok THEN [kill EXCEPT ![t].pc = "done"]
                          ELSE [kill EXCEPT ![t].pc = "raised", ![t].exc = "RemoteError"]
       /\ UNCHANGED <<poll, fetch, submission, terminate_calls>>

\* What describe_jobs reports in the life of a job that runs and succeeds,
\* with the name of its log stream or without.
LifecycleJobDicts ==
    {JobDict("RUNNING", FALSE, <<>>, "stream", FALSE),
     JobDict("SUCCEEDED", TRUE, <<Attempt(0)>>, "stream", TRUE),
     JobDict("SUCCEEDED", TRUE, <<Attempt(0)>>, None, FALSE)}

\* What the Batch service answers to describe_jobs(jobs=ids) in that life.
LifecycleResponses(ids) == [Range(ids) -> LifecycleJobDicts \cup {MissingJob}]

\* The engine polls and kills: a pass of filter_is_done, and kill, in a
\* thread of kill_tasks or called directly, at any time: before the pass,
\* between its steps, or after it.  Every request of the pass and of kill can
\* raise.
NextLifecycle ==
    \/ filter_is_done
    \/ /\ poll.pc = "start"
       /\ \E ok \in BOOLEAN : \E resp \in LifecycleResponses(JobIds(poll.tasks)) :
              get_aws_batch_job_infos(resp, ok)
    \/ filter_is_done_examine
    \/ /\ poll.pc = "cleanup"
       /\ \E ok \in BOOLEAN :
              \E resp \in LifecycleResponses(<<tasks[poll.tasks[poll.i]].drm_jobID>>) :
                  get_logs_from_job_id(resp, ok)
    \/ \E outcome \in PageOutcomes : cleanup_task_logs(outcome)
    \/ \E ok \in BOOLEAN : cleanup_task_delete(ok)
    \/ filter_is_done_yield
    \/ filter_is_done_return
    \/ \E t \in Tasks : kill_call(t)
    \/ \E t \in Tasks : \E ok \in BOOLEAN : terminate_task(t, ok)
    \/ \E t \in Tasks : \E ok \in BOOLEAN : kill_cleanup(t, ok)

SpecLifecycle == InitPoll /\ [][NextLifecycle]_vars

(***************************************************************************)
(* get_logs_from_log_stream: one call, its retries included.  A log stream *)
(* is a sequence of pages, a page a sequence of messages, a message a      *)
(* sequence of characters.                                                 *)
(***************************************************************************)
MaxAttempts == 3

LogPages == {<<>>, <<<<"a">>, <<"a", "\r", "0">>, <<"0">>>>, <<<<"0", "a">>>>}

LogStreams == UNION {[1..n -> LogPages] : n \in 0..MaxPages}

\* nextForwardToken after the first i pages.
Token(i) == "f/" \o ToString(i)

TokenPosition(token) ==
    IF token = None THEN 0 ELSE CHOOSE i \in 0..MaxPages : Token(i) = token

\* The answer of the log service to get_log_events(startFromHead=True,
\* nextToken=token) on a stream that exists: the next page and the token after
\* it; at the end of the stream no events and the token that was sent.
get_log_events(stream, token) ==
    LET pos == TokenPosition(token) IN
    IF pos < Len(stream)
    THEN [events |-> stream[pos + 1], nextForwardToken |-> Token(pos + 1)]
    ELSE [events |-> <<>>, nextForwardToken |-> Token(pos)]

\* "\n".join(lines)
RECURSIVE JoinLines(_)
JoinLines(lines) ==
    IF lines = <<>> THEN <<>>
    ELSE IF Len(lines) = 1 THEN lines[1]
    ELSE lines[1] \o <<"\n">> \o JoinLines(Tail(lines))

\* "\n".join(message for message in messages if not "\r" in message)
LogResult(messages) ==
    JoinLines(SelectSeq(messages, LAMBDA m : ~Contains(m, "\r")))

\* The placeholder text, as a text of one line.
LogStreamNotFound == <<LogStreamNotFoundText>>

\* The call get_logs_from_log_stream(stream, attempts=attempts, workflow=...):
\* workflow says whether a workflow is passed.
get_logs_from_log_stream(stream, attempts, workflow) ==
    /\ fetch.pc = "idle"
    /\ fetch' = [pc |-> "request", stream |-> stream, attempts |-> attempts,
                 workflow |-> workflow, next_logs_token |-> None,
                 messages |-> <<>>, result |-> <<>>, exc |-> None,
                 maxAttempts |-> attempts, owned |-> workflow, tried |-> 1,
                 not_found |-> 0, responses |-> 0, matched |-> FALSE,
                 signal_seen |-> FALSE, requests_after_signal |-> 0]
    /\ UNCHANGED <<tasks, poll, killing, submission, s3_objects, describe_calls,
                   log_calls, delete_calls>>

\* logs_client.get_log_events(...) is sent
get_log_events_send ==
    /\ fetch.pc = "request"
    /\ fetch' = [fetch EXCEPT
                   !.pc = "in_flight",
                   !.requests_after_signal =
                       IF fetch.signal_seen THEN @ + 1 ELSE @]
    /\ UNCHANGED <<tasks, poll, killing, submission, s3_objects, describe_calls,
                   log_calls, delete_calls>>

\* The response: the stream does not exist (ResourceNotFoundException), the
\* response does not pass _check_aws_response_for_error, or a page of events.
\* Then the rest of the body of the loop, or the except clause.
get_log_events_receive(outcome) ==
    LET response == get_log_events(fetch.stream, fetch.next_logs_token)
        messages == fetch.messages \o response.events
        signalled == termination_signal \in TERMINATION_SIGNALS
        seen == [fetch EXCEPT !.signal_seen = @ \/ signalled,
                              !.responses = @ + 1]
    IN /\ fetch.pc = "in_flight"
       /\ fetch' =
            IF outcome = "not_found"
            THEN IF Exhausted(fetch.attempts)
                 THEN [fetch EXCEPT !.pc = "done", !.result = LogStreamNotFound,
                                    !.not_found = @ + 1]
                 ELSE [fetch EXCEPT !.pc = "request", !.attempts = @ - 1,
                                    !.workflow = FALSE, !.next_logs_token = None,
                                    !.messages = <<>>, !.responses = 0,
                                    !.tried = @ + 1, !.not_found = @ + 1]
            ELSE IF outcome = "error"
            THEN [fetch EXCEPT !.pc = "raised", !.exc = "RemoteError"]
            ELSE IF fetch.next_logs_token = response.nextForwardToken
            THEN [seen EXCEPT !.pc = "done", !.messages = messages,
                              !.matched = TRUE, !.result = LogResult(messages)]
            ELSE IF fetch.workflow /\ termination_signal \notin TERMINATION_SIGNALS
            THEN [seen EXCEPT !.pc = "done", !.messages = messages,
                              !.next_logs_token = response.nextForwardToken,
                              !.result = LogResult(messages)]
            ELSE [seen EXCEPT !.pc = "request", !.messages = messages,
                              !.next_logs_token = response.nextForwardToken]
       /\ UNCHANGED <<tasks, poll, killing, submission, s3_objects, describe_calls,
                      log_calls, delete_calls>>

LogOutcomes == {"events", "not_found", "error"}

NextLogs ==
    \/ /\ fetch.pc = "idle"
       /\ \E stream \in LogStreams : \E attempts \in 1..MaxAttempts :
              \E workflow \in BOOLEAN :
                  get_logs_from_log_stream(stream, attempts, workflow)
    \/ get_log_events_send
    \/ \E outcome \in LogOutcomes : get_log_events_receive(outcome)
    \/ \E sig \in RaisedSignals : raise_signal(sig)

SpecLogs == Init /\ [][NextLogs]_vars

(***************************************************************************)
(* What the claims speak of.                                               *)
(***************************************************************************)
\* The jobs the Batch service accepted for task t.
AcceptedJobs(t) == {k \in 1..Len(batch_jobs) : batch_jobs[k].task = t}

\* The job definitions registered for image i / under the uid of task t.
RegisteredFor(i) == {k \in 1..Len(job_definitions) : job_definitions[k].image = i}
RegisteredOnBehalfOf(t) ==
    {k \in 1..Len(job_definitions) : job_definitions[k].job_name = tasks[t].uid}

\* _submit_job of t found the termination signal raised and returned (None, None, None).
Skipped(t) == thread[t].pc = "returned" /\ thread[t].rv = NoneTriple

Finished(c) == call[c].pc \in {"done", "raised"}

\* A job name as the Batch service defines a valid one.
ValidJobName(name) ==
    /\ Len(name) > 0
    /\ name[1] \in Alnum
    /\ \A i \in 1..Len(name) : name[i] \in NameChars
    /\ Len(name) <= MaxJobNameLen

MissingRequest(t) ==
    \/ tasks[t].shape.queue = None
    \/ tasks[t].shape.core_req = None
    \/ tasks[t].shape.mem_req = None

ValidShape(shape) ==
    /\ shape.queue # None /\ shape.core_req # None /\ shape.mem_req # None
    /\ ~PrefixCheckFails(shape.s3_prefix_for_command_script_temp_files)
    /\ IsBucketKey(shape.s3_prefix_for_command_script_temp_files)

NoRemoteError(c) ==
    /\ call[c].exc \notin {"RemoteError", "SystemExit"}
    /\ \A t \in BatchSet(c) : thread[t].exc # "RemoteError"

\* The task records the job the service accepted for it, with the script and
\* the job definition of that very request.
RecordsOwnJob(t) ==
    \E k \in AcceptedJobs(t) :
        /\ tasks[t].drm_jobID = JobId(k)
        /\ tasks[t].s3_command_script_uri = batch_jobs[k].script
        /\ tasks[t].job_definition_arn = batch_jobs[k].jobDefinition

(***************************************************************************)
(* C1.  A task whose status is submitted carries the job id the Batch      *)
(* service returned for an accepted submit_job request made for that task, *)
(* with the script URI and the job definition of that request.             *)
(***************************************************************************)
C1_SubmittedCarriesAcceptedJob ==
    \A t \in Created : tasks[t].status = "submitted" => RecordsOwnJob(t)

C1_Witness ==
    \E t \in Created : tasks[t].status = "submitted" /\ tasks[t].drm_jobID # None

(***************************************************************************)
(* C2.  A task whose _submit_job starts after the termination signal was   *)
(* raised has no script uploaded and no job submitted, and submit_jobs     *)
(* marks it killed, without a job id.                                      *)
(***************************************************************************)
C2_SignalledTaskIsKilled ==
    \A c \in Callers : \A t \in BatchSet(c) :
        Skipped(t) =>
            /\ upload_calls[t] = 0
            /\ submit_calls[t] = 0
            /\ Finished(c) =>
                 tasks[t].status = "killed" /\ tasks[t].drm_jobID = None

(***************************************************************************)
(* C3, as the claim states it.  With submit_jobs called one call after the *)
(* other, the register_job_definition request is made at most once per     *)
(* image.                                                                  *)
(***************************************************************************)
C3_OneRegisterCallPerImage ==
    \A i \in Images : register_calls[i] <= 1

(***************************************************************************)
(* C3, corrected.  With submit_jobs called one call after the other, a     *)
(* register request is made for an image only while the image is not in    *)
(* the cache: a request that raises, or whose response is refused, caches  *)
(* nothing, and the next batch with the image sends another one.  From the *)
(* request that succeeds on, no further request is made for the image, its *)
(* cache entry stays what that request returned, and every job is          *)
(* submitted with it.                                                      *)
(***************************************************************************)
C3_OneRegistrationCached ==
    /\ \A i \in Images :
         /\ Cardinality(RegisteredFor(i)) <= register_calls[i]
         /\ image_to_job_definition[i] # None =>
              \E k \in RegisteredFor(i) : image_to_job_definition[i] = Arn(k)
    /\ \A c \in Callers :
         call[c].pc = "register_call" =>
             image_to_job_definition[call[c].cur.image] = None
    /\ \A k \in 1..Len(batch_jobs) :
         batch_jobs[k].jobDefinition =
             image_to_job_definition[tasks[batch_jobs[k].task].shape.image]

C3_NoRegisterCallOnceCached ==
    \A i \in Images :
        image_to_job_definition[i] # None =>
            /\ register_calls'[i] = register_calls[i]
            /\ image_to_job_definition'[i] = image_to_job_definition[i]

C3_OneRegistrationPerImage ==
    /\ []C3_OneRegistrationCached
    /\ [][C3_NoRegisterCallOnceCached]_vars

\* Two batches, one after the other, with the same image: one registration.
C3_Witness ==
    /\ call[1].pc = "done" /\ call[1].batch = <<2>>
    /\ tasks[1].status = "submitted" /\ tasks[2].status = "submitted"
    /\ tasks[1].shape.image = tasks[2].shape.image
    /\ register_calls[tasks[1].shape.image] = 1

(***************************************************************************)
(* C4.  With submit_jobs called by several threads at the same time, at    *)
(* most one job definition is registered per image.                        *)
(***************************************************************************)
C4_OneRegistrationUnderConcurrency ==
    \A i \in Images : Cardinality(RegisteredFor(i)) <= 1

(***************************************************************************)
(* C5.  A batch of n valid tasks, with no termination signal and no remote *)
(* error: submit_jobs returns, one submit_job request was made per task,   *)
(* each task is submitted and records the job id and the script of its own *)
(* request, and the job ids are pairwise distinct.                         *)
(***************************************************************************)
C5_EachTaskRecordsItsOwnJob ==
    \A c \in Callers :
        (/\ Finished(c)
         /\ termination_signal = None
         /\ NoRemoteError(c)
         /\ \A t \in BatchSet(c) :
              /\ ValidShape(tasks[t].shape)
              /\ ValidJobName(JobName(tasks[t].shape.stage_name, tasks[t].uid)))
        => /\ call[c].pc = "done"
           /\ \A t \in BatchSet(c) :
                /\ submit_calls[t] = 1
                /\ Cardinality(AcceptedJobs(t)) = 1
                /\ tasks[t].status = "submitted"
                /\ RecordsOwnJob(t)
                /\ tasks[t].s3_command_script_uri =
                       ScriptUri(t, tasks[t].shape.s3_prefix_for_command_script_temp_files)
                /\ split_bucket_key(tasks[t].s3_command_script_uri) \in s3_objects
           /\ \A t, u \in BatchSet(c) :
                t # u => tasks[t].drm_jobID # tasks[u].drm_jobID

\* A batch of two, the second task's request accepted before the first's.
C5_Witness ==
    /\ call[1].pc = "done" /\ call[1].batch = <<1, 2>>
    /\ termination_signal = None
    /\ tasks[1].status = "submitted" /\ tasks[1].drm_jobID = JobId(2)
    /\ tasks[2].status = "submitted" /\ tasks[2].drm_jobID = JobId(1)

(***************************************************************************)
(* C6.  A job name that is not valid makes submit_script_as_aws_batch_job  *)
(* fail before any remote call, in particular before the script is         *)
(* uploaded.                                                               *)
(***************************************************************************)
C6_InvalidNameFailsBeforeUpload ==
    \A t \in Created :
        ~ValidJobName(JobName(tasks[t].shape.stage_name, tasks[t].uid))
            => upload_calls[t] = 0 /\ submit_calls[t] = 0

(***************************************************************************)
(* C7.  A task with no queue, no CPU request or no memory request fails    *)
(* with a validation error before any remote call was made on its behalf,  *)
(* the registration of the job definition included.                        *)
(***************************************************************************)
C7_InvalidTaskFailsBeforeRemoteCall ==
    \A t \in Created :
        MissingRequest(t) =>
            /\ upload_calls[t] = 0
            /\ submit_calls[t] = 0
            /\ RegisteredOnBehalfOf(t) = {}
            /\ thread[t].pc \in {"returned", "raised"} /\ ~Skipped(t)
                 => thread[t].exc = "ValueError"

(***************************************************************************)
(* C8.  A validation error of one task of a batch is fatal to that task    *)
(* only: every other task of the batch whose submit_job request was        *)
(* accepted is marked submitted with its job id, script and definition.    *)
(***************************************************************************)
C8_ValidationErrorIsPerTask ==
    \A c \in Callers :
        (/\ Finished(c)
         /\ NoRemoteError(c)
         /\ \E t \in BatchSet(c) : thread[t].exc = "ValueError")
        => \A u \in BatchSet(c) :
             AcceptedJobs(u) # {} =>
                 tasks[u].status = "submitted" /\ RecordsOwnJob(u)

(***************************************************************************)
(* C9.  A task not submitted because the termination signal was raised     *)
(* ends killed, and no remote service was contacted on its behalf: no      *)
(* registration, no upload, no submit_job request.                         *)
(***************************************************************************)
C9_KilledWithoutRemoteContact ==
    \A c \in Callers : \A t \in BatchSet(c) :
        Skipped(t) =>
            /\ RegisteredOnBehalfOf(t) = {}
            /\ upload_calls[t] = 0
            /\ submit_calls[t] = 0
            /\ Finished(c) => tasks[t].status = "killed"

(***************************************************************************)
(* C10.  A pass of filter_is_done that raises no error yields exactly one  *)
(* outcome for each task whose job is SUCCEEDED or FAILED, in the order of *)
(* the tasks; a task whose job is in another status gets no outcome, no    *)
(* log retrieval, no write of its stdout file and no delete of its script. *)
(***************************************************************************)
PolledStatus(t) == poll.job_id_to_job_dict[tasks[t].drm_jobID].status

C10_OneOutcomePerTerminalTask ==
    LET terminal(t) == PolledStatus(t) \in {"SUCCEEDED", "FAILED"}
        yieldedTasks == [k \in 1..Len(poll.yielded) |-> poll.yielded[k].task]
    IN /\ poll.pc \in {"loop", "cleanup", "cleanup_delete", "yield", "done"} =>
            \A t \in Range(poll.tasks) :
                ~terminal(t) =>
                    /\ t \notin Range(yieldedTasks)
                    /\ log_calls[t] = 0
                    /\ delete_calls[t] = 0
                    /\ tasks[t].output_stdout = ""
                    /\ split_bucket_key(tasks[t].s3_command_script_uri) \in s3_objects
       /\ poll.pc = "done" => yieldedTasks = SelectSeq(poll.tasks, terminal)

\* A pass over two tasks, the first still running, the second failed.
C10_Witness ==
    /\ poll.pc = "done"
    /\ poll.tasks = <<1, 2>>
    /\ PolledStatus(1) = "RUNNING"
    /\ PolledStatus(2) = "FAILED"
    /\ Len(poll.yielded) = 1
    /\ poll.yielded[1].task = 2
    /\ delete_calls[2] = 1

(***************************************************************************)
(* C11.  A task whose job is FAILED with a last attempt whose container    *)
(* exited with code 0 makes filter_is_done raise: the task gets no         *)
(* outcome and no cleanup, and no outcome of a FAILED job has exit status  *)
(* 0.                                                                      *)
(***************************************************************************)
\* The describe_jobs response has been received and the loop entered.
Described == poll.i >= 1 /\ Len(poll.tasks) > 0

PolledJob(t) == poll.job_id_to_job_dict[tasks[t].drm_jobID]

YieldedTasks == {poll.yielded[k].task : k \in 1..Len(poll.yielded)}

\* The position of task t in the pass.
PassIndex(t) == CHOOSE i \in 1..Len(poll.tasks) : poll.tasks[i] = t

FailedWithExitCodeZero(job_dict) ==
    /\ job_dict.status = "FAILED"
    /\ job_dict.has_attempts
    /\ job_dict.attempts # <<>>
    /\ LastAttempt(job_dict).has_exitCode
    /\ LastAttempt(job_dict).exitCode = 0

C11_FailedWithExitZeroRaises ==
    Described =>
        /\ \A k \in 1..Len(poll.yielded) :
              PolledJob(poll.yielded[k].task).status = "FAILED"
                  => poll.yielded[k].exit_status # 0
        /\ \A t \in Range(poll.tasks) :
              FailedWithExitCodeZero(PolledJob(t)) =>
                  /\ t \notin YieldedTasks
                  /\ log_calls[t] = 0 /\ delete_calls[t] = 0
                  /\ poll.i >= PassIndex(t) =>
                        /\ poll.i = PassIndex(t)
                        /\ poll.pc \in {"loop", "raised"}
                        /\ poll.pc = "raised" => poll.exc = "AssertionError"

\* The second task of a pass is FAILED with exit code 0: the pass raises after
\* the outcome of the first.
C11_Witness ==
    /\ Described
    /\ poll.pc = "raised" /\ poll.exc = "AssertionError"
    /\ poll.i = 2
    /\ FailedWithExitCodeZero(PolledJob(poll.tasks[2]))
    /\ Len(poll.yielded) = 1

(***************************************************************************)
(* C12.  A job in a terminal status whose description has no attempt       *)
(* record, "attempts" absent or empty, makes filter_is_done raise: no      *)
(* outcome is yielded for it.                                              *)
(***************************************************************************)
C12_NoAttemptRecordRaises ==
    Described =>
        \A k \in 1..Len(poll.yielded) :
            /\ PolledJob(poll.yielded[k].task).has_attempts
            /\ PolledJob(poll.yielded[k].task).attempts # <<>>

(***************************************************************************)
(* C13.  A job id asked for and absent from the describe_jobs response     *)
(* makes filter_is_done raise JobStatusMismatchError before the loop: no   *)
(* outcome, no log retrieval, no write of a stdout file and no delete for  *)
(* any task.  drm_statuses accepts the absence and returns the statuses of *)
(* the ids that are present.                                               *)
(***************************************************************************)
\* The ids asked for that the response does not contain.
MissingIds == {id \in DOMAIN poll.response : poll.response[id] = MissingJob}

C13_MissingIdIsFatalToThePass ==
    (poll.response # <<>> /\ MissingIds # {}) =>
        IF poll.pc = "statuses"
        THEN poll.statuses =
                 {<<id, poll.response[id].status>> :
                     id \in Range(JobIds(poll.tasks)) \ MissingIds}
        ELSE /\ poll.pc = "raised"
             /\ poll.exc = "JobStatusMismatchError"
             /\ poll.yielded = <<>>
             /\ \A t \in Created :
                  /\ log_calls[t] = 0
                  /\ delete_calls[t] = 0
                  /\ tasks[t].output_stdout = ""
                  /\ split_bucket_key(tasks[t].s3_command_script_uri) \in s3_objects

\* A pass over two tasks: the first job succeeded, the second is absent from
\* the response.
C13_Witness ==
    /\ poll.pc = "raised" /\ poll.exc = "JobStatusMismatchError"
    /\ poll.tasks = <<1, 2>>
    /\ poll.response[tasks[1].drm_jobID].status = "SUCCEEDED"
    /\ poll.response[tasks[2].drm_jobID] = MissingJob
    /\ poll.yielded = <<>>

(***************************************************************************)
(* C14.  With no termination signal and a stream that exists,              *)
(* get_logs_from_log_stream, called with a workflow or without, requests   *)
(* pages until a response carries the token that was sent, and returns the *)
(* messages of all the pages of the stream, in order, without those that   *)
(* contain a carriage return.                                              *)
(***************************************************************************)
RECURSIVE Flatten(_)
Flatten(pages) == IF pages = <<>> THEN <<>> ELSE Head(pages) \o Flatten(Tail(pages))

\* The text of the first k pages of the stream / of the whole stream.
PagesText(stream, k) ==
    LogResult(Flatten(SubSeq(stream, 1, IF k < Len(stream) THEN k ELSE Len(stream))))

FullText(stream) == PagesText(stream, Len(stream))

C14_PaginatesUntilTokenRepeats ==
    (/\ fetch.pc = "done"
     /\ termination_signal = None
     /\ fetch.not_found = 0)
    => /\ fetch.matched
       /\ fetch.result = FullText(fetch.stream)

(***************************************************************************)
(* C15.  Once a response has been processed with the termination signal   *)
(* of the owning workflow raised, get_logs_from_log_stream sends no        *)
(* further request and returns the messages it has accumulated.            *)
(***************************************************************************)
C15_SignalStopsPagination ==
    (fetch.pc # "idle" /\ fetch.owned) =>
        /\ fetch.requests_after_signal = 0
        /\ (fetch.pc = "done" /\ fetch.signal_seen /\ fetch.result # LogStreamNotFound)
              => fetch.result = PagesText(fetch.stream, fetch.responses)

(***************************************************************************)
(* C16.  get_logs_from_log_stream with attempts = n >= 1 makes at most n   *)
(* attempts.  When the stream is not found on k < n attempts and found on  *)
(* the next, the result is the text of the pages of that attempt; when it  *)
(* is not found n times the result is the placeholder text, after exactly  *)
(* n attempts.  The not-found error is never raised to the caller.         *)
(***************************************************************************)
C16_BoundedAttempts ==
    fetch.pc # "idle" =>
        /\ fetch.tried <= fetch.maxAttempts
        /\ fetch.not_found <= fetch.maxAttempts
        /\ fetch.pc \in {"request", "in_flight", "raised"}
              => fetch.tried = fetch.not_found + 1
        /\ fetch.pc = "raised" => fetch.exc # "ResourceNotFoundException"
        /\ fetch.pc = "done" =>
              IF fetch.not_found = fetch.maxAttempts
              THEN /\ fetch.result = LogStreamNotFound
                   /\ fetch.tried = fetch.maxAttempts
              ELSE /\ fetch.tried = fetch.not_found + 1
                   /\ fetch.result = PagesText(fetch.stream, fetch.responses)
                   /\ fetch.not_found >= 1 =>
                        fetch.matched /\ fetch.result = FullText(fetch.stream)

\* The stream is not found on two attempts of three and found on the third.
C16_Witness ==
    /\ fetch.pc = "done"
    /\ fetch.maxAttempts = 3
    /\ fetch.not_found = 2
    /\ fetch.tried = 3
    /\ Len(fetch.stream) = 2
    /\ fetch.result = FullText(fetch.stream)
    /\ fetch.result # <<>>

(***************************************************************************)
(* C17.  kill of a submitted task sends one terminate_job request; no step *)
(* of kill retrieves logs, describes jobs or writes the stdout file; the   *)
(* staged script is deleted only in the cleanup that follows a terminate   *)
(* response that passed the check, and then exactly when the task does not *)
(* keep its script.  A terminate response that fails the check makes kill  *)
(* raise, with no delete.                                                  *)
(***************************************************************************)
KillStep(t) ==
    kill'[t] # kill[t] =>
        /\ log_calls' = log_calls
        /\ describe_calls' = describe_calls
        /\ tasks' = tasks
        /\ delete_calls'[t] =
              delete_calls[t]
                + (IF /\ kill[t].pc = "cleanup"
                      /\ tasks[t].shape.keep_command_script_uri # "True"
                   THEN 1 ELSE 0)
        /\ kill'[t].pc = "cleanup" =>
              kill[t].pc = "terminate" /\ terminate_calls'[t] = terminate_calls[t] + 1
        /\ kill'[t].pc = "done" => kill[t].pc = "cleanup"
        /\ (kill[t].pc = "terminate" /\ kill'[t].pc # "cleanup") =>
              /\ kill'[t].pc = "raised" /\ kill'[t].exc = "RemoteError"
              /\ s3_objects' = s3_objects

C17_OneTerminateRequest ==
    \A t \in Tasks :
        /\ kill[t].pc \in {"none", "terminate"} => terminate_calls[t] = 0
        /\ kill[t].pc \in {"cleanup", "done", "raised"} => terminate_calls[t] = 1
        /\ kill[t].pc # "none" => tasks[t].status = "submitted"

C17_KillTerminatesThenCleans ==
    /\ []C17_OneTerminateRequest
    /\ [][\A t \in Tasks : KillStep(t)]_vars

\* Two tasks killed before any pass: the one that keeps its script and the one
\* that does not.
C17_Witness ==
    /\ kill[1].pc = "done" /\ kill[2].pc = "done"
    /\ poll.pc = "idle"
    /\ tasks[1].shape.keep_command_script_uri = "True" /\ delete_calls[1] = 0
    /\ tasks[2].shape.keep_command_script_uri = None /\ delete_calls[2] = 1
    /\ split_bucket_key(tasks[2].s3_command_script_uri) \notin s3_objects
    /\ tasks[2].output_stdout = ""

(***************************************************************************)
(* C18.  In a pass of filter_is_done, a task has its outcome yielded only  *)
(* after its logs were retrieved and written to its stdout file, and its   *)
(* script is deleted only after that write; for a task that keeps its      *)
(* script no delete request is made.                                       *)
(***************************************************************************)
StdoutWritten(t) ==
    \/ /\ log_calls[t] >= 1
       /\ tasks[t].output_stdout = StdoutText(LogText, tasks[t].drm_jobID)
    \/ /\ log_calls[t] >= GetLogAttempts
       /\ tasks[t].output_stdout =
              StdoutText(LogStreamNotFoundText, tasks[t].drm_jobID)
    \/ /\ log_calls[t] = 0
       /\ PolledJob(t).logStreamName = None
       /\ tasks[t].output_stdout =
              StdoutText(NoLogStreamText(tasks[t].drm_jobID), tasks[t].drm_jobID)

C18_LogsThenDeleteThenOutcome ==
    Described =>
        \A t \in Range(poll.tasks) :
            LET keeps == tasks[t].shape.keep_command_script_uri = "True"
                script == split_bucket_key(tasks[t].s3_command_script_uri)
                current == poll.i <= Len(poll.tasks) /\ poll.tasks[poll.i] = t
            IN /\ delete_calls[t] <= 1
               /\ delete_calls[t] = 1 => StdoutWritten(t)
               /\ keeps => delete_calls[t] = 0 /\ script \in s3_objects
               /\ (t \in YieldedTasks \/ (current /\ poll.pc = "yield")) =>
                     /\ StdoutWritten(t)
                     /\ delete_calls[t] = IF keeps THEN 0 ELSE 1
                     /\ ~keeps => script \notin s3_objects
               /\ (current /\ poll.pc = "cleanup_delete") =>
                     StdoutWritten(t) /\ delete_calls[t] = 0

\* A pass over two finished tasks: the first keeps its script, the second does
\* not.
C18_Witness ==
    /\ poll.pc = "done"
    /\ Len(poll.yielded) = 2
    /\ tasks[1].shape.keep_command_script_uri = "True" /\ delete_calls[1] = 0
    /\ tasks[2].shape.keep_command_script_uri = None /\ delete_calls[2] = 1
    /\ log_calls[1] = 1 /\ log_calls[2] = 1

(***************************************************************************)
(* C19.  Once the staged script of a task has been deleted, no later       *)
(* operation of the driver on the task sends a request for that object:    *)
(* at most one delete request is made per task.                            *)
(***************************************************************************)
C19_NoRequestAfterDelete ==
    \A t \in Created : delete_calls[t] <= 1

(***************************************************************************)
(* C20.  A response of the Batch service with a status code other than 200 *)
(* or with failures makes the operation that received it raise: no task   *)
(* is marked submitted from a submit_job response that does not pass       *)
(* _check_aws_response_for_error.                                          *)
(***************************************************************************)
C20_BadResponseRaises ==
    \A t \in Created :
        tasks[t].status = "submitted" =>
            \A k \in AcceptedJobs(t) :
                tasks[t].drm_jobID = JobId(k)
                    => ~check_aws_response_for_error(batch_jobs[k].response)

(***************************************************************************)
(* C21.  register_base_job_definition registers no job definition under a  *)
(* name longer than 128 characters: a hint whose derived name              *)
(* "cosmos_base_jobdef_" + hint would be longer is registered under        *)
(* "cosmos_base_job_definition".                                           *)
(***************************************************************************)
C21_NameWithinLimit ==
    \A k \in 1..Len(job_definitions) :
        /\ Len(job_definitions[k].jobDefinitionName) <= MaxJobNameLen
        /\ Len(JobDefPrefix \o job_definitions[k].job_name) > MaxJobNameLen
              => job_definitions[k].jobDefinitionName = SharedJobDefName

(***************************************************************************)
(* C22.  When submit_jobs has returned or raised, every job the Batch      *)
(* service accepted for a task of the batch is recorded as the drm_jobID   *)
(* of that task, and every script uploaded for a task of the batch is      *)
(* recorded as its s3_command_script_uri or is no longer in the bucket.    *)
(***************************************************************************)
C22_NothingLeftUntracked ==
    \A c \in Callers :
        Finished(c) =>
            \A t \in BatchSet(c) :
                LET prefix == tasks[t].shape.s3_prefix_for_command_script_temp_files
                IN /\ \A k \in AcceptedJobs(t) : tasks[t].drm_jobID = JobId(k)
                   /\ (upload_calls[t] > 0 /\ ScriptObject(t, prefix) \in s3_objects)
                         => tasks[t].s3_command_script_uri = ScriptUri(t, prefix)

(***************************************************************************)
(* C23.  The cache of job definitions is keyed by the image alone: at most *)
(* one job definition is registered per image, no registration is asked    *)
(* for an image that is cached, and every job is submitted with the        *)
(* definition of its image whatever the mount points, volumes and shared   *)
(* memory size of its task.  The configuration registered is that of the   *)
(* task whose tuple the loop visited while the image was not cached.       *)
(***************************************************************************)
C23_CacheKeyedByImage ==
    /\ \A i \in Images : Cardinality(RegisteredFor(i)) <= 1
    /\ call[1].pc = "register_call" =>
          image_to_job_definition[call[1].cur.image] = None
    /\ \A k \in 1..Len(batch_jobs) :
          \E d \in RegisteredFor(tasks[batch_jobs[k].task].shape.image) :
              /\ batch_jobs[k].jobDefinition = Arn(d)
              /\ image_to_job_definition[job_definitions[d].image] = Arn(d)
    /\ \A d \in 1..Len(job_definitions) :
          \E t \in Created :
              /\ tasks[t].uid = job_definitions[d].job_name
              /\ tasks[t].shape.image = job_definitions[d].image
              /\ ConfigOf(tasks[t].shape) = ConfigOf(job_definitions[d])
    /\ \A t \in Created :
          tasks[t].status = "submitted" =>
              tasks[t].job_definition_arn = image_to_job_definition[tasks[t].shape.image]

\* A batch of two tasks of one image with different configurations: one
\* registration, with the configuration of the second task, used by both.
C23_Witness ==
    /\ call[1].pc = "done" /\ call[1].batch = <<1, 2>>
    /\ tasks[1].shape.image = tasks[2].shape.image
    /\ ConfigOf(tasks[1].shape) # ConfigOf(tasks[2].shape)
    /\ Len(job_definitions) = 1
    /\ job_definitions[1].job_name = tasks[2].uid
    /\ ConfigOf(job_definitions[1]) = ConfigOf(tasks[2].shape)
    /\ tasks[1].status = "submitted" /\ tasks[2].status = "submitted"
    /\ tasks[1].job_definition_arn = Arn(1) /\ tasks[2].job_definition_arn = Arn(1)

====
